---------------------------- MODULE Spec2Model ----------------------------
(***************************************************************************)
(* A model of huk10/go-otp: the HOTP / TOTP generators (hotp.go, the TOTP  *)
(* file, option.go), the shared truncation engine (the helpers file) and   *)
(* the key-URI codec (KeyURI.URI and FromURI).                             *)
(*                                                                         *)
(* Strings are sequences of one-character strings, so that formatting and  *)
(* parsing are computed character by character.  Go's int64 / int are      *)
(* two's-complement words; the model keeps the wrap-around but scales the  *)
(* width down to WordBits bits.                                            *)
(***************************************************************************)
EXTENDS Integers, Sequences, FiniteSets, TLC

VARIABLES
    gen,    \* the generator under use: an HOTP or TOTP struct, or NoGen
    call,   \* the call in progress or last returned: operation, arguments, result
    loop    \* the locals of a running Verify loop: its index i and the At calls made

vars == <<gen, call, loop>>

(***************************************************************************)
(* Bounds of the model.                                                    *)
(***************************************************************************)
\* width in bits of the words that stand for Go's int64 and int
WordBits == 8
\* longest list of options handed to NewHOTP / NewTOTP
MaxOptions == 2
\* TOTP timestamps (Unix seconds) range over -MaxTime .. MaxTime
MaxTime == 40
\* the count of At calls kept for a running Verify stops at MaxCount
MaxCount == 8
\* a parsed URI departs from the plain one in at most MaxDeviations pieces
MaxDeviations == 2

(***************************************************************************)
(* Strings and characters.                                                 *)
(***************************************************************************)
LowerChars == <<"a","b","c","d","e","f","g","h","i","j","k","l","m",
                "n","o","p","q","r","s","t","u","v","w","x","y","z">>
UpperChars == <<"A","B","C","D","E","F","G","H","I","J","K","L","M",
                "N","O","P","Q","R","S","T","U","V","W","X","Y","Z">>
DigitChars == <<"0","1","2","3","4","5","6","7","8","9">>

Range(s) == {s[k] : k \in DOMAIN s}

IndexOf(c, s) == IF c \in Range(s) THEN CHOOSE k \in DOMAIN s : s[k] = c ELSE 0

RECURSIVE Repeat(_, _)
\* strings.Repeat for a one-character string
Repeat(c, n) == IF n <= 0 THEN <<>> ELSE <<c>> \o Repeat(c, n - 1)

\* strings.ToUpper / strings.ToLower, character by character (ASCII)
ToUpperChar(c) == IF c \in Range(LowerChars) THEN UpperChars[IndexOf(c, LowerChars)] ELSE c
ToLowerChar(c) == IF c \in Range(UpperChars) THEN LowerChars[IndexOf(c, UpperChars)] ELSE c
ToUpper(s) == [k \in DOMAIN s |-> ToUpperChar(s[k])]
ToLower(s) == [k \in DOMAIN s |-> ToLowerChar(s[k])]

\* s[from:] of Go, for 0 <= from <= len(s) (1-based sequence, 0-based from)
Drop(s, from) == SubSeq(s, from + 1, Len(s))
\* s[:to] of Go
Take(s, to) == SubSeq(s, 1, to)

\* position (1-based) of the first / last occurrence of character c in s, 0 if none
FirstIndex(c, s) ==
    IF c \in Range(s) THEN CHOOSE k \in DOMAIN s : s[k] = c /\ \A j \in 1..(k - 1) : s[j] # c
    ELSE 0
LastIndex(c, s) ==
    IF c \in Range(s) THEN CHOOSE k \in DOMAIN s : s[k] = c /\ \A j \in (k + 1)..Len(s) : s[j] # c
    ELSE 0

\* F(x) with x evaluated once, before F is
Strict(F(_), x) == CHOOSE y \in {F(v) : v \in {x}} : TRUE

RECURSIVE SplitFrom(_, _, _)
\* the parts of s from position from on
SplitFrom(s, sep, from) ==
    LET at == {k \in from..Len(s) : s[k] = sep}
    IN  IF at = {} THEN <<SubSeq(s, from, Len(s))>>
        ELSE Strict(LAMBDA k : <<SubSeq(s, from, k - 1)>> \o SplitFrom(s, sep, k + 1),
                    CHOOSE k \in at : \A j \in at : k <= j)

\* strings.Split(s, sep) for a one-character separator: always at least one part
Split(s, sep) == SplitFrom(s, sep, 1)

HasPrefix(s, p) == Len(s) >= Len(p) /\ Take(s, Len(p)) = p

(***************************************************************************)
(* Machine words.                                                          *)
(***************************************************************************)
WordMod == 2 ^ WordBits
MaxInt == 2 ^ (WordBits - 1) - 1
MinInt == -(2 ^ (WordBits - 1))
Word == MinInt..MaxInt

\* the two's-complement value a Go int64 / int operation leaves for the exact result x
Wrap(x) == ((x - MinInt) % WordMod) + MinInt

\* Go's / and % on integers truncate toward zero (b > 0 here)
GoDiv(a, b) == IF a >= 0 THEN a \div b ELSE -((-a) \div b)
GoMod(a, b) == a - b * GoDiv(a, b)

\* number >> shift on a signed word: an arithmetic shift (floor division by 2^shift)
ShiftRight(number, shift) ==
    IF shift >= 31 THEN (IF number < 0 THEN -1 ELSE 0) ELSE number \div (2 ^ shift)

(***************************************************************************)
(* strconv.Itoa / strconv.FormatInt(_, 10).                                *)
(***************************************************************************)
RECURSIVE FormatNat(_)
FormatNat(n) ==
    IF n < 10 THEN <<DigitChars[n + 1]>> ELSE FormatNat(n \div 10) \o <<DigitChars[(n % 10) + 1]>>

Itoa(n) == IF n < 0 THEN <<"-">> \o FormatNat(-n) ELSE FormatNat(n)


(***************************************************************************)
(* Errors and enumerations (the errors / enums file).                      *)
(***************************************************************************)
ErrURIFormat == "uri format error"
ErrSecretDecode == "secret base32 decode error"
ErrSecretCannotBeEmpty == "secret cannot be empty"

minSkewNumber == 0
minPeriodNumber == 10

AlgorithmSHA1 == 1
AlgorithmSHA256 == 2
AlgorithmSHA512 == 3

DigitsSix == 6
DigitsEight == 8

Str_SHA1 == <<"S","H","A","1">>
Str_SHA256 == <<"S","H","A","2","5","6">>
Str_SHA512 == <<"S","H","A","5","1","2">>

\* Algorithms.String
AlgorithmString(h) ==
    CASE h = AlgorithmSHA1 -> Str_SHA1
      [] h = AlgorithmSHA256 -> Str_SHA256
      [] h = AlgorithmSHA512 -> Str_SHA512
      [] OTHER -> <<"p","a","n","i","c">>

\* Algorithms.from: [val, err]
AlgorithmFrom(str) ==
    LET up == ToUpper(str)
    IN  CASE up = <<>> -> [val |-> AlgorithmSHA1, err |-> FALSE]
          [] up = Str_SHA1 -> [val |-> AlgorithmSHA1, err |-> FALSE]
          [] up = Str_SHA256 -> [val |-> AlgorithmSHA256, err |-> FALSE]
          [] up = Str_SHA512 -> [val |-> AlgorithmSHA512, err |-> FALSE]
          [] OTHER -> [val |-> 0, err |-> TRUE]

\* Digits.from: [val, err]
DigitsFrom(i) ==
    CASE i = 6 -> [val |-> DigitsSix, err |-> FALSE]
      [] i = 8 -> [val |-> DigitsEight, err |-> FALSE]
      [] OTHER -> [val |-> 0, err |-> TRUE]

(***************************************************************************)
(* Helpers (the helpers file): base32, padZero, intToByte, truncate.       *)
(***************************************************************************)
Base32Alphabet == UpperChars \o <<"2","3","4","5","6","7">>

\* the bytes one quantum of up to 8 base32 characters decodes to
\* (encoding/base32 decode: a quantum of 1, 3 or 6 characters yields nothing)
Base32Quantum(q) ==
    LET d == [j \in 1..8 |-> IF j <= Len(q) THEN IndexOf(q[j], Base32Alphabet) - 1 ELSE 0]
        b0 == (d[1] * 8 + (d[2] \div 4)) % 256
        b1 == (d[2] * 64 + d[3] * 2 + (d[4] \div 16)) % 256
        b2 == (d[4] * 16 + (d[5] \div 2)) % 256
        b3 == (d[5] * 128 + d[6] * 4 + (d[7] \div 8)) % 256
        b4 == (d[7] * 32 + d[8]) % 256
    IN  CASE Len(q) = 8 -> <<b0, b1, b2, b3, b4>>
          [] Len(q) = 7 -> <<b0, b1, b2, b3>>
          [] Len(q) = 5 -> <<b0, b1, b2>>
          [] Len(q) = 4 -> <<b0, b1>>
          [] Len(q) = 2 -> <<b0>>
          [] OTHER -> <<>>

RECURSIVE Base32Bytes(_)
Base32Bytes(s) ==
    IF Len(s) = 0 THEN <<>>
    ELSE IF Len(s) <= 8 THEN Base32Quantum(s)
    ELSE Base32Quantum(Take(s, 8)) \o Base32Bytes(Drop(s, 8))

\* Base32Decode: upper-cases, then decodes unpadded standard base32: [bytes, err]
Base32Decode(str) ==
    LET upper == ToUpper(str)
    IN  IF \E k \in DOMAIN upper : upper[k] \notin Range(Base32Alphabet)
        THEN [bytes |-> <<>>, err |-> TRUE]
        ELSE [bytes |-> Base32Bytes(upper), err |-> FALSE]

\* padZero without the padding
padZero_Unpadded(value, size) == value

\* padZero
padZero(value, size) ==
    IF Len(value) >= size THEN value ELSE Repeat("0", size - Len(value)) \o value

\* intToByte: the 8 bytes of an int64, big-endian
intToByte(number) ==
    LET shifts == <<56, 48, 40, 32, 24, 16, 8, 0>>
    IN  [k \in 1..8 |-> ShiftRight(number, shifts[k]) % 256]

\* uint32(math.Pow10(digits))
Pow10(digits) == 10 ^ digits

\* truncate that takes the offset from the high four bits of the last byte
truncate_HighNibble(h, digits) ==
    LET offset == h[Len(h)] \div 16
        bits == (h[offset + 1] % 128) * (2 ^ 24) + (h[offset + 2] % 256) * (2 ^ 16)
                + (h[offset + 3] % 256) * (2 ^ 8) + (h[offset + 4] % 256)
        value == bits % Pow10(digits)
    IN  padZero(Itoa(value), digits)

\* truncate: dynamic truncation of a digest h to a zero-padded decimal string
truncate(h, digits) ==
    LET offset == h[Len(h)] % 16
        bits == (h[offset + 1] % 128) * (2 ^ 24) + (h[offset + 2] % 256) * (2 ^ 16)
                + (h[offset + 3] % 256) * (2 ^ 8) + (h[offset + 4] % 256)
        value == bits % Pow10(digits)
    IN  padZero(Itoa(value), digits)

\* hasher: the hash an algorithm selects, given by its digest size in bytes
hasher(algorithm) ==
    CASE algorithm = AlgorithmSHA1 -> 20
      [] algorithm = AlgorithmSHA256 -> 32
      [] algorithm = AlgorithmSHA512 -> 64

RECURSIVE Absorb(_, _)
Absorb(bytes, acc) ==
    IF Len(bytes) = 0 THEN acc ELSE Absorb(Tail(bytes), (acc * 33 + Head(bytes) + 1) % 65521)

\* hmac.New(hashFunc, key); mac.Write(msg); mac.Sum(nil).  crypto/hmac is outside
\* the repository: a fixed function of (hash, key, message) stands for it, with a
\* digest of the hash's size whose bytes depend on all three.
hmacSum(hashSize, key, msg) ==
    LET seed == Absorb(msg, Absorb(key, hashSize))
    IN  [j \in 1..hashSize |-> (((seed % 251) + j) * ((seed % 241) + 3 * j) + (seed \div 7)) % 256]

(***************************************************************************)
(* option.go: the Otp configuration and its options.                       *)
(***************************************************************************)
WithSkew(skew, opt) ==
    [opt EXCEPT !.Skew = IF skew < minSkewNumber THEN minSkewNumber ELSE skew]

WithDigits(digits, opt) == [opt EXCEPT !.Digits = digits]

\* WithPeriod without the lower limit
WithPeriod_Unclamped(period, opt) == [opt EXCEPT !.Period = period]

WithPeriod(period, opt) ==
    [opt EXCEPT !.Period = IF period < minPeriodNumber THEN minPeriodNumber ELSE period]

WithCounter(counter, opt) == [opt EXCEPT !.Counter = counter]

WithAlgorithm(algorithm, opt) == [opt EXCEPT !.Algorithm = algorithm]

\* opt(&otp): an option is the closure [name, arg] applied to the configuration
ApplyOption(o, opt) ==
    CASE o.name = "WithSkew" -> WithSkew(o.arg, opt)
      [] o.name = "WithDigits" -> WithDigits(o.arg, opt)
      [] o.name = "WithPeriod" -> WithPeriod(o.arg, opt)
      [] o.name = "WithCounter" -> WithCounter(o.arg, opt)
      [] o.name = "WithAlgorithm" -> WithAlgorithm(o.arg, opt)

RECURSIVE ApplyOptions(_, _)
\* for _, opt := range options { opt(&otp) }
ApplyOptions(options, opt) ==
    IF Len(options) = 0 THEN opt
    ELSE ApplyOptions(Tail(options), ApplyOption(Head(options), opt))

\* the Otp literal both constructors start from
DefaultOtp ==
    [Skew |-> 0, Counter |-> 1, Period |-> 30, Algorithm |-> AlgorithmSHA1, Digits |-> DigitsSix]

NoOtp == [Skew |-> 0, Counter |-> 0, Period |-> 0, Algorithm |-> 0, Digits |-> 0]

\* no generator (before construction, or after a constructor panicked)
NoGen == [kind |-> "none", Otp |-> NoOtp, Secret |-> <<>>, decodedSecret |-> <<>>, panic |-> ""]

\* the constructor without the check for an empty secret
NewGenerator_NoEmptyCheck(kind, secret, options) ==
    LET dec == Base32Decode(secret)
    IN  IF dec.err THEN [NoGen EXCEPT !.panic = ErrSecretDecode]
        ELSE [kind |-> kind, Otp |-> ApplyOptions(options, DefaultOtp),
              Secret |-> secret, decodedSecret |-> dec.bytes, panic |-> ""]

\* the constructor shared by NewHOTP and NewTOTP (their bodies are the same)
NewGenerator(kind, secret, options) ==
    IF secret = <<>> THEN [NoGen EXCEPT !.panic = ErrSecretCannotBeEmpty]
    ELSE LET dec == Base32Decode(secret)
         IN  IF dec.err THEN [NoGen EXCEPT !.panic = ErrSecretDecode]
             ELSE [kind |-> kind, Otp |-> ApplyOptions(options, DefaultOtp),
                   Secret |-> secret, decodedSecret |-> dec.bytes, panic |-> ""]

NewHOTP(secret, options) == NewGenerator("hotp", secret, options)

NewTOTP(secret, options) == NewGenerator("totp", secret, options)

(***************************************************************************)
(* hotp.go: HOTP.At and HOTP.Verify.                                       *)
(***************************************************************************)
\* HOTP.At
HOTP_At(h, counter) ==
    LET s == intToByte(counter)
        hex == hmacSum(hasher(h.Otp.Algorithm), h.decodedSecret, s)
    IN  truncate(hex, h.Otp.Digits)

\* the loop started from the configured counter instead of the argument
HOTP_VerifyFirst_Configured(h, counter) == Wrap(h.Otp.Counter - h.Otp.Skew)

\* HOTP.Verify, the loop's first index: c - int64(h.Skew)
HOTP_VerifyFirst(h, counter) == Wrap(counter - h.Otp.Skew)

\* HOTP.Verify, the loop's bound: c + int64(h.Skew)
HOTP_VerifyLast(h, counter) == Wrap(counter + h.Otp.Skew)

(***************************************************************************)
(* The TOTP file: TOTP.At, TOTP.Expiration, TOTP.WithExpiration and the    *)
(* time TOTP.Verify looks at.  A time.Time is given by its Unix seconds.   *)
(***************************************************************************)
\* TOTP.At
TOTP_At(o, t) ==
    LET key == intToByte(GoDiv(t, o.Otp.Period))
        h == hmacSum(hasher(o.Otp.Algorithm), o.decodedSecret, key)
    IN  truncate(h, o.Otp.Digits)

\* TOTP.Expiration
TOTP_Expiration(o, t) == Wrap(o.Otp.Period - GoMod(t, o.Otp.Period))

\* TOTP.WithExpiration
TOTP_WithExpiration(o, t) ==
    [token |-> TOTP_At(o, t), expiration |-> TOTP_Expiration(o, t)]

\* TOTP.Verify: time.Unix(sec, 0).Add(time.Second * time.Duration(o.Period*i)), in
\* Unix seconds (whole seconds are added; exact while the sum stays inside a word)
TOTP_GivenTime(o, sec, i) == Wrap(sec + Wrap(o.Otp.Period * i))

\* TOTP.Verify, the loop's first index: o.Skew * -1
TOTP_VerifyFirst(o) == Wrap(o.Otp.Skew * (-1))

(***************************************************************************)
(* Calls.  A call record holds the operation, its arguments and, once      *)
(* pc = "done", its result.                                                *)
(***************************************************************************)
Idle == [op |-> "none", pc |-> "done"]
NoLoop == [i |-> 0, n |-> 0]

\* a candidate that is not a token: wrong length, not a digit
BadToken == <<"x">>

\* the base32 secrets handed to the constructors
SecretArgs == {<<>>, <<"J","B">>, <<"m","f","r","g","g">>, <<"1","1">>}

\* the options handed to the constructors
SkewArgs == {MinInt, -1, 0, 1, 2, MaxInt}
PeriodArgs == {MinInt, 0, 9, 10, 11, 30, 60}
CounterArgs == {MinInt, -1, 0, 1, 2, MaxInt}
OptionArgs ==
    {[name |-> "WithSkew", arg |-> a] : a \in SkewArgs}
    \cup {[name |-> "WithPeriod", arg |-> a] : a \in PeriodArgs}
    \cup {[name |-> "WithCounter", arg |-> a] : a \in CounterArgs}
    \cup {[name |-> "WithDigits", arg |-> a] : a \in {DigitsSix, DigitsEight}}
    \cup {[name |-> "WithAlgorithm", arg |-> a] : a \in {AlgorithmSHA1, AlgorithmSHA256, AlgorithmSHA512}}

SeqsUpTo(S, n) == UNION {[1..k -> S] : k \in 0..n}

(***************************************************************************)
(* Spec: construction of generators.                                       *)
(***************************************************************************)
Init ==
    /\ gen = NoGen
    /\ call = Idle
    /\ loop = NoLoop

\* hotp := NewHOTP(secret, options...)
DoNewHOTP ==
    /\ call = Idle
    /\ \E secret \in SecretArgs, options \in SeqsUpTo(OptionArgs, MaxOptions) :
        /\ gen' = NewHOTP(secret, options)
        /\ call' = [op |-> "NewHOTP", pc |-> "done", secret |-> secret, options |-> options]
        /\ UNCHANGED loop

\* totp := NewTOTP(secret, options...)
DoNewTOTP ==
    /\ call = Idle
    /\ \E secret \in SecretArgs, options \in SeqsUpTo(OptionArgs, MaxOptions) :
        /\ gen' = NewTOTP(secret, options)
        /\ call' = [op |-> "NewTOTP", pc |-> "done", secret |-> secret, options |-> options]
        /\ UNCHANGED loop

Next == DoNewHOTP \/ DoNewTOTP

Spec == Init /\ [][Next]_vars

(***************************************************************************)
(* SpecTruncate: truncate applied to digests of the three hash sizes.      *)
(***************************************************************************)
\* a digest of the given size with last byte last, the other bytes spread by step
Digest(size, step, last) ==
    [j \in 1..size |-> IF j = size THEN last ELSE (step * j + 11 * last) % 256]

\* the digests handed to truncate: every offset, with small and large bytes
Digests ==
    {Digest(hasher(a), step, last) :
        a \in {AlgorithmSHA1, AlgorithmSHA256, AlgorithmSHA512},
        step \in {0, 1, 37, 255}, last \in (0..15) \cup (240..255)}

InitTruncate ==
    /\ gen = NoGen
    /\ call \in [op : {"truncate"}, pc : {"call"}, h : Digests,
                  digits : {DigitsSix, DigitsEight}, token : {<<>>}]
    /\ loop = NoLoop

\* token := truncate(h, digits)
DoTruncate ==
    /\ call.op = "truncate" /\ call.pc = "call"
    /\ call' = [call EXCEPT !.pc = "done", !.token = truncate(call.h, call.digits)]
    /\ UNCHANGED <<gen, loop>>

NextTruncate == DoTruncate

SpecTruncate == InitTruncate /\ [][NextTruncate]_vars

(***************************************************************************)
(* SpecHOTP: calls on an HOTP generator built by NewHOTP.                  *)
(***************************************************************************)
\* the secrets that construct a generator
GoodSecrets == {<<"J","B">>, <<"m","f","r","g","g">>}

\* the option lists the generators under use were built with
GenOptions(periods) ==
    {<<[name |-> "WithSkew", arg |-> k], [name |-> "WithPeriod", arg |-> p],
       [name |-> "WithDigits", arg |-> d], [name |-> "WithAlgorithm", arg |-> a]>> :
        k \in {-1, 1, 2}, p \in periods, d \in {DigitsSix, DigitsEight},
        a \in {AlgorithmSHA1, AlgorithmSHA256, AlgorithmSHA512}}

\* the counters handed to HOTP.At and HOTP.Verify: around zero and at both ends of int64
HOTPCounters == (MinInt..(MinInt + 2)) \cup (-2..4) \cup ((MaxInt - 2)..MaxInt)

\* the candidates handed to HOTP.Verify: the empty string, a malformed one, and the
\* tokens of the counters around the one verified
HOTPCandidates(h, counter) ==
    {<<>>, BadToken} \cup {HOTP_At(h, Wrap(counter + d)) : d \in -3..3}

Bump(n) == IF n < MaxCount THEN n + 1 ELSE MaxCount

\* the counters the HOTP generators under use were configured with
ConfiguredCounters == {1, 5}

InitHOTP ==
    /\ gen \in {NewHOTP(secret, options \o <<[name |-> "WithCounter", arg |-> c]>>) :
                    secret \in GoodSecrets, options \in GenOptions({30}), c \in ConfiguredCounters}
    /\ call = Idle
    /\ loop = NoLoop

\* the caller takes the result; the generator is ready for the next call
Return ==
    /\ call.pc = "done"
    /\ call.op # "none"
    /\ call' = Idle
    /\ loop' = NoLoop
    /\ UNCHANGED gen

\* token := hotp.At(counter)
DoHOTPAt ==
    /\ call = Idle
    /\ \E counter \in HOTPCounters :
        /\ call' = [op |-> "At", pc |-> "done", at |-> counter, token |-> HOTP_At(gen, counter)]
        /\ UNCHANGED <<gen, loop>>

\* hotp.Verify(token, counter) with an empty token: return false
HOTPVerifyEmpty ==
    /\ call = Idle
    /\ \E counter \in HOTPCounters :
        /\ call' = [op |-> "Verify", pc |-> "done", at |-> counter, token |-> <<>>, ret |-> FALSE]
        /\ UNCHANGED <<gen, loop>>

\* hotp.Verify(token, counter): enter the loop, i := c - int64(h.Skew)
HOTPVerifyEnter ==
    /\ call = Idle
    /\ \E counter \in HOTPCounters :
        \E token \in HOTPCandidates(gen, counter) \ {<<>>} :
            /\ call' = [op |-> "Verify", pc |-> "loop", at |-> counter, token |-> token, ret |-> FALSE]
            /\ loop' = [i |-> HOTP_VerifyFirst(gen, counter), n |-> 0]
            /\ UNCHANGED gen

\* the loop body finds h.At(i) == token: return true
HOTPVerifyMatch ==
    /\ call.op = "Verify" /\ call.pc = "loop" /\ gen.kind = "hotp"
    /\ loop.i <= HOTP_VerifyLast(gen, call.at)
    /\ HOTP_At(gen, loop.i) = call.token
    /\ call' = [call EXCEPT !.pc = "done", !.ret = TRUE]
    /\ loop' = [loop EXCEPT !.n = Bump(@)]
    /\ UNCHANGED gen

\* the loop body finds another token: i++
HOTPVerifyNext ==
    /\ call.op = "Verify" /\ call.pc = "loop" /\ gen.kind = "hotp"
    /\ loop.i <= HOTP_VerifyLast(gen, call.at)
    /\ HOTP_At(gen, loop.i) # call.token
    /\ loop' = [i |-> Wrap(loop.i + 1), n |-> Bump(loop.n)]
    /\ UNCHANGED <<gen, call>>

\* the loop condition i <= c + int64(h.Skew) fails: return false
HOTPVerifyExit ==
    /\ call.op = "Verify" /\ call.pc = "loop" /\ gen.kind = "hotp"
    /\ ~(loop.i <= HOTP_VerifyLast(gen, call.at))
    /\ call' = [call EXCEPT !.pc = "done", !.ret = FALSE]
    /\ UNCHANGED <<gen, loop>>

(***************************************************************************)
(* SpecTOTP: calls on a TOTP generator built by NewTOTP.                   *)
(***************************************************************************)
\* the Unix seconds handed to the TOTP calls, before and after the epoch
TOTPTimes == (-MaxTime)..MaxTime

\* the candidates handed to TOTP.Verify at time t: the empty string, a malformed
\* one, and the tokens the generator gives from whole periods before or after t;
\* src is the time the token was generated at (none: 2 * MaxInt)
NoSrc == 2 * MaxInt
TOTPCandidates(o, t) ==
    {[token |-> <<>>, src |-> NoSrc], [token |-> BadToken, src |-> NoSrc]}
    \cup {[token |-> TOTP_At(o, t + d * o.Otp.Period), src |-> t + d * o.Otp.Period] : d \in -3..3}

InitTOTP ==
    /\ gen \in {NewTOTP(secret, options) : secret \in GoodSecrets, options \in GenOptions({9, 30})}
    /\ call = Idle
    /\ loop = NoLoop

\* token := totp.At(time.Unix(t, 0))
DoTOTPAt ==
    /\ call = Idle
    /\ \E t \in TOTPTimes :
        /\ call' = [op |-> "At", pc |-> "done", at |-> t, token |-> TOTP_At(gen, t)]
        /\ UNCHANGED <<gen, loop>>

\* totp.Expiration(time.Unix(t, 0))
DoTOTPExpiration ==
    /\ call = Idle
    /\ \E t \in TOTPTimes :
        /\ call' = [op |-> "Expiration", pc |-> "done", at |-> t,
                    expiration |-> TOTP_Expiration(gen, t)]
        /\ UNCHANGED <<gen, loop>>

\* token, expiration := totp.WithExpiration(time.Unix(t, 0))
DoTOTPWithExpiration ==
    /\ call = Idle
    /\ \E t \in TOTPTimes :
        /\ call' = [op |-> "WithExpiration", pc |-> "done", at |-> t,
                    token |-> TOTP_WithExpiration(gen, t).token,
                    expiration |-> TOTP_WithExpiration(gen, t).expiration]
        /\ UNCHANGED <<gen, loop>>

\* totp.Verify(token, t) with an empty token: return false
TOTPVerifyEmpty ==
    /\ call = Idle
    /\ \E t \in TOTPTimes :
        /\ call' = [op |-> "Verify", pc |-> "done", at |-> t, token |-> <<>>,
                    src |-> NoSrc, ret |-> FALSE]
        /\ UNCHANGED <<gen, loop>>

\* totp.Verify(token, t): enter the loop, i := o.Skew * -1
TOTPVerifyEnter ==
    /\ call = Idle
    /\ \E t \in TOTPTimes :
        \E c \in {x \in TOTPCandidates(gen, t) : x.token # <<>>} :
            /\ call' = [op |-> "Verify", pc |-> "loop", at |-> t, token |-> c.token,
                        src |-> c.src, ret |-> FALSE]
            /\ loop' = [i |-> TOTP_VerifyFirst(gen), n |-> 0]
            /\ UNCHANGED gen

\* a match that remembers the accepted window in the generator, to refuse replays
TOTPVerifyMatch_Remember ==
    /\ call.op = "Verify" /\ call.pc = "loop" /\ gen.kind = "totp"
    /\ loop.i <= gen.Otp.Skew
    /\ TOTP_At(gen, TOTP_GivenTime(gen, call.at, loop.i)) = call.token
    /\ call' = [call EXCEPT !.pc = "done", !.ret = TRUE]
    /\ loop' = [loop EXCEPT !.n = Bump(@)]
    /\ gen' = [gen EXCEPT !.Otp.Counter = GoDiv(TOTP_GivenTime(gen, call.at, loop.i), gen.Otp.Period)]

\* the loop body finds o.At(givenTime) == token: return true
TOTPVerifyMatch ==
    /\ call.op = "Verify" /\ call.pc = "loop" /\ gen.kind = "totp"
    /\ loop.i <= gen.Otp.Skew
    /\ TOTP_At(gen, TOTP_GivenTime(gen, call.at, loop.i)) = call.token
    /\ call' = [call EXCEPT !.pc = "done", !.ret = TRUE]
    /\ loop' = [loop EXCEPT !.n = Bump(@)]
    /\ UNCHANGED gen

\* the loop body finds another token: i++
TOTPVerifyNext ==
    /\ call.op = "Verify" /\ call.pc = "loop" /\ gen.kind = "totp"
    /\ loop.i <= gen.Otp.Skew
    /\ TOTP_At(gen, TOTP_GivenTime(gen, call.at, loop.i)) # call.token
    /\ loop' = [i |-> Wrap(loop.i + 1), n |-> Bump(loop.n)]
    /\ UNCHANGED <<gen, call>>

\* the loop condition i <= o.Skew fails: return false
TOTPVerifyExit ==
    /\ call.op = "Verify" /\ call.pc = "loop" /\ gen.kind = "totp"
    /\ ~(loop.i <= gen.Otp.Skew)
    /\ call' = [call EXCEPT !.pc = "done", !.ret = FALSE]
    /\ UNCHANGED <<gen, loop>>

(***************************************************************************)
(* net/url, as far as KeyURI.URI and FromURI use it.  The library is not   *)
(* part of the repository: what follows is its documented behaviour on    *)
(* printable ASCII text.                                                   *)
(***************************************************************************)
\* the printable ASCII characters, code 32 first (the double quote, the
\* backslash and the back quote are written by name)
Ascii == <<" ","!","<dquote>","#","$","%","&","'","(",")","*","+",",","-",".","/",
           "0","1","2","3","4","5","6","7","8","9",":",";","<","=",">","?",
           "@","A","B","C","D","E","F","G","H","I","J","K","L","M","N","O",
           "P","Q","R","S","T","U","V","W","X","Y","Z","[","<bslash>","]","^","_",
           "<bquote>","a","b","c","d","e","f","g","h","i","j","k","l","m","n","o",
           "p","q","r","s","t","u","v","w","x","y","z","{","|","}","~">>

\* the character of a byte, and the byte of a character; bytes outside the
\* printable range share one stand-in character
ByteChar(b) == IF b >= 32 /\ b <= 126 THEN Ascii[b - 31] ELSE "<byte>"
CharByte(c) == IF c \in Range(Ascii) THEN IndexOf(c, Ascii) + 31 ELSE 255

upperhex == <<"0","1","2","3","4","5","6","7","8","9","A","B","C","D","E","F">>
lowerhex == <<"0","1","2","3","4","5","6","7","8","9","a","b","c","d","e","f">>

ishex(c) == c \in Range(upperhex) \cup Range(lowerhex)
unhex(c) == IF c \in Range(upperhex) THEN IndexOf(c, upperhex) - 1 ELSE IndexOf(c, lowerhex) - 1

IsAlnum(c) == c \in Range(LowerChars) \cup Range(UpperChars) \cup Range(DigitChars)

\* url.shouldEscape(c, mode) for the modes "path", "pathSegment", "host" and
\* "query" (a query component)
shouldEscape(c, mode) ==
    IF IsAlnum(c) THEN FALSE
    ELSE IF mode = "host" /\ c \in {"!","$","&","'","(",")","*","+",",",";","=",":","[","]","<",">","<dquote>"}
         THEN FALSE
    ELSE IF c \in {"-","_",".","~"} THEN FALSE
    ELSE IF c \in {"$","&","+",",","/",":",";","=","?","@"}
         THEN (CASE mode = "path" -> c = "?"
                 [] mode = "pathSegment" -> c \in {"/", ";", ",", "?"}
                 [] mode = "query" -> TRUE
                 [] OTHER -> TRUE)
    ELSE TRUE

RECURSIVE escapeAt(_, _, _)
escapeAt(s, i, mode) ==
    IF i > Len(s) THEN <<>>
    ELSE (IF shouldEscape(s[i], mode)
          THEN (IF s[i] = " " /\ mode = "query" THEN <<"+">>
                ELSE <<"%", upperhex[(CharByte(s[i]) \div 16) + 1], upperhex[(CharByte(s[i]) % 16) + 1]>>)
          ELSE <<s[i]>>) \o escapeAt(s, i + 1, mode)

\* url.escape(s, mode): %XX with upper-case hex for the characters to escape, and
\* + for a space in a query component
escape(s, mode) == escapeAt(s, 1, mode)

RECURSIVE unescapeOK(_, _, _)
\* the checking pass of url.unescape, from position i on: every % starts a %XX, and
\* in a host the escape is %25 or of a byte >= 0x80 and no other character needs
\* escaping
unescapeOK(s, i, mode) ==
    IF i > Len(s) THEN TRUE
    ELSE IF s[i] = "%"
         THEN /\ i + 2 <= Len(s) /\ ishex(s[i + 1]) /\ ishex(s[i + 2])
              /\ (mode = "host" /\ unhex(s[i + 1]) < 8) => (s[i + 1] = "2" /\ s[i + 2] = "5")
              /\ unescapeOK(s, i + 3, mode)
    ELSE /\ (mode = "host" /\ s[i] # "+") => ~shouldEscape(s[i], "host")
         /\ unescapeOK(s, i + 1, mode)

RECURSIVE unescapeText(_, _, _)
\* the decoding pass of url.unescape, from position i on
unescapeText(s, i, mode) ==
    IF i > Len(s) THEN <<>>
    ELSE IF s[i] = "%"
         THEN <<ByteChar(unhex(s[i + 1]) * 16 + unhex(s[i + 2]))>> \o unescapeText(s, i + 3, mode)
    ELSE IF s[i] = "+" /\ mode = "query" THEN <<" ">> \o unescapeText(s, i + 1, mode)
    ELSE <<s[i]>> \o unescapeText(s, i + 1, mode)

\* url.unescape: [text, err]
unescape(s, mode) ==
    IF unescapeOK(s, 1, mode) THEN [text |-> unescapeText(s, 1, mode), err |-> FALSE]
    ELSE [text |-> <<>>, err |-> TRUE]

Contains(s, c) == c \in Range(s)
Count(s, c) == Cardinality({k \in DOMAIN s : s[k] = c})
HasSuffix(s, p) == Len(s) >= Len(p) /\ SubSeq(s, Len(s) - Len(p) + 1, Len(s)) = p

\* strings.Cut(s, sep) for a one-character separator
CutBefore(s, sep) == IF Contains(s, sep) THEN Take(s, FirstIndex(sep, s) - 1) ELSE s
CutAfter(s, sep) == IF Contains(s, sep) THEN Drop(s, FirstIndex(sep, s)) ELSE <<>>

RECURSIVE getSchemeAt(_, _)
getSchemeAt(rawURL, i) ==
    IF i > Len(rawURL) THEN [scheme |-> <<>>, rest |-> rawURL, err |-> FALSE]
    ELSE LET c == rawURL[i]
         IN  CASE c \in Range(LowerChars) \cup Range(UpperChars) -> getSchemeAt(rawURL, i + 1)
               [] c \in Range(DigitChars) \cup {"+", "-", "."} ->
                      IF i = 1 THEN [scheme |-> <<>>, rest |-> rawURL, err |-> FALSE]
                      ELSE getSchemeAt(rawURL, i + 1)
               [] c = ":" ->
                      IF i = 1 THEN [scheme |-> <<>>, rest |-> <<>>, err |-> TRUE]
                      ELSE [scheme |-> Take(rawURL, i - 1), rest |-> Drop(rawURL, i), err |-> FALSE]
               [] OTHER -> [scheme |-> <<>>, rest |-> rawURL, err |-> FALSE]

\* url.getScheme: [scheme, rest, err]
getScheme(rawURL) == getSchemeAt(rawURL, 1)

\* url.validOptionalPort
validOptionalPort(port) ==
    \/ port = <<>>
    \/ /\ Head(port) = ":"
       /\ \A k \in 2..Len(port) : port[k] \in Range(DigitChars)

\* url.validUserinfo
validUserinfo(s) ==
    \A k \in DOMAIN s :
        \/ IsAlnum(s[k])
        \/ s[k] \in {"-",".","_",":","~","!","$","&","'","(",")","*","+",",",";","=","%","@"}

\* url.parseHost, for hosts that are not bracketed IP literals: [text, err]
parseHost(host) ==
    IF Contains(host, ":") /\ ~validOptionalPort(Drop(host, LastIndex(":", host) - 1))
    THEN [text |-> <<>>, err |-> TRUE]
    ELSE unescape(host, "host")

\* url.parseAuthority: the host of [userinfo@]host[:port], [text, err]
parseAuthority(authority) ==
    LET i == LastIndex("@", authority)
        host == Strict(parseHost, Drop(authority, i))
    IN  IF host.err THEN host
        ELSE IF i > 0 /\ ~validUserinfo(Take(authority, i - 1)) THEN [text |-> <<>>, err |-> TRUE]
        ELSE host

NoURL == [err |-> TRUE, Scheme |-> <<>>, Opaque |-> <<>>, Host |-> <<>>, Path |-> <<>>, RawQuery |-> <<>>]

\* url.parse after the scheme and the query are split off: p = [scheme, rest, query]
parseRest(p) ==
    LET hasAuthority == /\ (p.scheme # <<>> \/ ~HasPrefix(p.rest, <<"/","/","/">>))
                        /\ HasPrefix(p.rest, <<"/","/">>)
        after == Drop(p.rest, 2)
        path == IF hasAuthority
                THEN (IF Contains(after, "/") THEN Drop(after, FirstIndex("/", after) - 1) ELSE <<>>)
                ELSE p.rest
    IN  IF ~HasPrefix(p.rest, <<"/">>) /\ p.scheme # <<>>
        THEN [NoURL EXCEPT !.err = FALSE, !.Scheme = p.scheme, !.Opaque = p.rest, !.RawQuery = p.query]
        ELSE IF ~HasPrefix(p.rest, <<"/">>) /\ Contains(CutBefore(p.rest, "/"), ":") THEN NoURL
        ELSE Strict(LAMBDA a : IF a.host.err \/ a.path.err THEN NoURL
                               ELSE [err |-> FALSE, Scheme |-> p.scheme, Opaque |-> <<>>,
                                     Host |-> a.host.text, Path |-> a.path.text, RawQuery |-> p.query],
                    [host |-> IF hasAuthority THEN Strict(parseAuthority, CutBefore(after, "/"))
                              ELSE [text |-> <<>>, err |-> FALSE],
                     path |-> Strict(LAMBDA v : unescape(v, "path"), path)])

\* url.parse after getScheme: the scheme in lower case, the query cut off at the first ?
parseAfterScheme(gs) ==
    LET force == HasSuffix(gs.rest, <<"?">>) /\ Count(gs.rest, "?") = 1
    IN  IF gs.err THEN NoURL
        ELSE Strict(parseRest,
                    [scheme |-> ToLower(gs.scheme),
                     rest |-> IF force THEN Take(gs.rest, Len(gs.rest) - 1) ELSE CutBefore(gs.rest, "?"),
                     query |-> IF force THEN <<>> ELSE CutAfter(gs.rest, "?")])

\* url.parse(rawURL, false), the URL without its fragment
parseNoFragment(rawURL) ==
    IF rawURL = <<"*">> THEN [NoURL EXCEPT !.err = FALSE, !.Path = <<"*">>]
    ELSE Strict(parseAfterScheme, getScheme(rawURL))

\* url.Parse: the fragment is cut off at the first # and must unescape
UrlParse(rawURL) ==
    Strict(LAMBDA u : IF u.err THEN NoURL
                      ELSE IF Strict(LAMBDA v : unescape(v, "path"), CutAfter(rawURL, "#")).err THEN NoURL
                      ELSE u,
           Strict(parseNoFragment, CutBefore(rawURL, "#")))

RECURSIVE parseQueryAt(_, _)
\* url.parseQuery from the i-th pair on: a pair that holds a semicolon or does not
\* unescape, and an empty pair, is dropped without failing
parseQueryAt(pairs, i) ==
    IF i > Len(pairs) THEN <<>>
    ELSE Strict(LAMBDA kv : (IF Contains(pairs[i], ";") \/ pairs[i] = <<>> \/ kv.k.err \/ kv.v.err
                             THEN <<>>
                             ELSE <<[key |-> kv.k.text, value |-> kv.v.text]>>)
                            \o parseQueryAt(pairs, i + 1),
                [k |-> Strict(LAMBDA v : unescape(v, "query"), CutBefore(pairs[i], "=")),
                 v |-> Strict(LAMBDA v : unescape(v, "query"), CutAfter(pairs[i], "="))])

\* u.Query(): the decoded key/value pairs in the order of the query
UrlQuery(u) == Strict(LAMBDA pairs : parseQueryAt(pairs, 1), Split(u.RawQuery, "&"))

\* Values.Get(key): the first value of key, or the empty string
QueryGet(query, key) ==
    LET at == {k \in DOMAIN query : query[k].key = key}
    IN  IF at = {} THEN <<>> ELSE query[CHOOSE k \in at : \A j \in at : k <= j].value

\* URL.String() of a URL without user, fragment, RawPath, OmitHost and ForceQuery
URLString(u) ==
    LET scheme == IF u.Scheme # <<>> THEN u.Scheme \o <<":">> ELSE <<>>
        slashes == IF (u.Scheme # <<>> \/ u.Host # <<>>) /\ (u.Host # <<>> \/ u.Path # <<>>)
                   THEN <<"/","/">> ELSE <<>>
        path == IF u.Path = <<"*">> THEN u.Path ELSE escape(u.Path, "path")
        sep == IF path # <<>> /\ Head(path) # "/" /\ u.Host # <<>> THEN <<"/">> ELSE <<>>
        head == scheme \o slashes \o escape(u.Host, "host") \o sep
        dot == IF head = <<>> /\ Contains(CutBefore(path, "/"), ":") THEN <<".","/">> ELSE <<>>
        query == IF u.RawQuery # <<>> THEN <<"?">> \o u.RawQuery ELSE <<>>
    IN  (IF u.Opaque # <<>> THEN scheme \o u.Opaque ELSE head \o dot \o path) \o query


(***************************************************************************)
(* strconv.Atoi / strconv.ParseInt(_, 10, 64) and the helpers atoi and     *)
(* parseInt.                                                               *)
(***************************************************************************)
RECURSIVE DecimalPrefix(_, _)
\* the value of the first n digits
DecimalPrefix(digits, n) ==
    IF n = 0 THEN 0
    ELSE 10 * DecimalPrefix(digits, n - 1) + (IndexOf(digits[n], DigitChars) - 1)

DecimalValue(digits) == DecimalPrefix(digits, Len(digits))

\* strconv.ParseInt(s, 10, 64) and strconv.Atoi(s): an optional sign, then one or
\* more digits, and a value that fits the word: [val, err]
ParseInt(s) ==
    LET signed == s # <<>> /\ Head(s) \in {"+", "-"}
        digits == IF signed THEN Tail(s) ELSE s
        val == IF signed /\ Head(s) = "-" THEN -DecimalValue(digits) ELSE DecimalValue(digits)
    IN  IF digits = <<>> \/ \E k \in DOMAIN digits : digits[k] \notin Range(DigitChars)
        THEN [val |-> 0, err |-> TRUE]
        ELSE IF val \notin Word THEN [val |-> 0, err |-> TRUE]
        ELSE [val |-> val, err |-> FALSE]

\* atoi without the default for the empty string
atoi_NoDefault(str, def) == ParseInt(str)

\* atoi(str, def): [val, err]
atoi(str, def) == IF str = <<>> THEN [val |-> def, err |-> FALSE] ELSE ParseInt(str)

\* parseInt that gives up on a sign
parseInt_Unsigned(str, def) ==
    IF str = <<>> THEN [val |-> def, err |-> FALSE]
    ELSE IF Head(str) \in {"+", "-"} THEN [val |-> 0, err |-> TRUE]
    ELSE ParseInt(str)

\* parseInt(str, def, 10, 64): [val, err]
parseInt(str, def) == IF str = <<>> THEN [val |-> def, err |-> FALSE] ELSE ParseInt(str)

(***************************************************************************)
(* KeyURI: KeyURI.URI and FromURI.                                         *)
(***************************************************************************)
Str_otpauth == <<"o","t","p","a","u","t","h">>
Str_hotp == <<"h","o","t","p">>
Str_totp == <<"t","o","t","p">>
Str_secret == <<"s","e","c","r","e","t">>
Str_issuer == <<"i","s","s","u","e","r">>
Str_algorithm == <<"a","l","g","o","r","i","t","h","m">>
Str_digits == <<"d","i","g","i","t","s">>
Str_period == <<"p","e","r","i","o","d">>
Str_counter == <<"c","o","u","n","t","e","r">>

\* the zero KeyURI
ZeroKeyURI == [Type |-> <<>>, Label |-> <<>>, Algorithm |-> <<>>, Digits |-> 0,
               Counter |-> 0, Period |-> 0, Issuer |-> <<>>, Secret |-> <<>>]

\* the period parameter emitted for every totp key, also for the default period
typeParams_AlwaysPeriod(p) ==
    IF p.Type = Str_totp
    THEN <<"&">> \o Str_period \o <<"=">> \o Itoa(p.Period)
    ELSE <<"&">> \o Str_counter \o <<"=">> \o Itoa(p.Counter)

\* KeyURI.URI: the parameter that depends on the type, period or counter
typeParams(p) ==
    IF p.Type = Str_totp
    THEN (IF p.Period # 30 THEN <<"&">> \o Str_period \o <<"=">> \o Itoa(p.Period) ELSE <<>>)
    ELSE <<"&">> \o Str_counter \o <<"=">> \o Itoa(p.Counter)

\* KeyURI.URI: the url.URL it fills in
KeyURI_URI(p) ==
    LET params1 == Str_secret \o <<"=">> \o p.Secret \o <<"&">> \o Str_issuer \o <<"=">> \o p.Issuer
        params2 == IF p.Algorithm # Str_SHA1
                   THEN params1 \o <<"&">> \o Str_algorithm \o <<"=">> \o p.Algorithm
                   ELSE params1
        params3 == IF p.Digits # 6
                   THEN params2 \o <<"&">> \o Str_digits \o <<"=">> \o Itoa(p.Digits)
                   ELSE params2
    IN  [err |-> FALSE, Scheme |-> Str_otpauth, Opaque |-> <<>>, Host |-> p.Type,
         Path |-> p.Label, RawQuery |-> params3 \o typeParams(p)]

\* what a call of FromURI leaves: the KeyURI (nil or not) and the error, or a panic
FromURIError == [nil |-> TRUE, key |-> ZeroKeyURI, err |-> ErrURIFormat, panic |-> ""]
FromURIPanic == [nil |-> TRUE, key |-> ZeroKeyURI, err |-> "", panic |-> "slice bounds out of range"]

\* FromURI: the issuer, taken from the path when the query has none
reconcileIssuer(issuer, path) ==
    IF issuer = <<>> /\ Len(path) > 1 THEN Drop(path[1], 1) ELSE issuer

\* the label without the issuer put in front
reconcileLabel_PathOnly(issuer, uPath, path) == Drop(uPath, 1)

\* FromURI: the label, with the issuer put in front when the path has none
reconcileLabel(issuer, uPath, path) ==
    IF Len(path) = 1 /\ issuer # <<>>
    THEN issuer \o <<":">> \o Drop(uPath, 1)
    ELSE Drop(uPath, 1)

\* the parsed period and counter kept whatever the type
forceSentinel_Keep(host, period, counter) == [period |-> period, counter |-> counter]

\* FromURI: the field that does not apply to the type is set to 0
forceSentinel(host, period, counter) ==
    IF host = Str_hotp
    THEN [period |-> 0, counter |-> counter]
    ELSE [period |-> period, counter |-> 0]

\* FromURI from u.Query() on
FromQuery(u, query) ==
    LET issuer0 == QueryGet(query, Str_issuer)
        secret == QueryGet(query, Str_secret)
        digits == atoi(QueryGet(query, Str_digits), 6)
        digitsEnum == DigitsFrom(digits.val)
        period0 == atoi(QueryGet(query, Str_period), 30)
        counter0 == parseInt(QueryGet(query, Str_counter), 1)
        algorithm == AlgorithmFrom(QueryGet(query, Str_algorithm))
        period == forceSentinel(u.Host, period0.val, counter0.val).period
        counter == forceSentinel(u.Host, period0.val, counter0.val).counter
        path == Split(u.Path, ":")
        fromPath == issuer0 = <<>> /\ Len(path) > 1
        issuer == reconcileIssuer(issuer0, path)
        label == reconcileLabel(issuer, u.Path, path)
    IN  IF secret = <<>> THEN FromURIError
        ELSE IF digits.err THEN FromURIError
        ELSE IF digitsEnum.err THEN FromURIError
        ELSE IF period0.err \/ period0.val < minPeriodNumber THEN FromURIError
        ELSE IF counter0.err THEN FromURIError
        ELSE IF algorithm.err THEN FromURIError
        ELSE IF fromPath /\ Len(path[1]) < 1 THEN FromURIPanic
        ELSE IF Len(u.Path) < 1 THEN FromURIPanic
        ELSE [nil |-> FALSE,
              key |-> [Type |-> u.Host, Label |-> label, Algorithm |-> AlgorithmString(algorithm.val),
                       Digits |-> digitsEnum.val, Counter |-> counter, Period |-> period,
                       Issuer |-> issuer, Secret |-> secret],
              err |-> "", panic |-> ""]

\* FromURI once url.Parse has run
FromURL(u) ==
    IF u.err THEN FromURIError
    ELSE IF u.Scheme # Str_otpauth THEN FromURIError
    ELSE IF u.Host # Str_hotp /\ u.Host # Str_totp THEN FromURIError
    ELSE Strict(LAMBDA query : FromQuery(u, query), UrlQuery(u))

FromURI(uri) == Strict(FromURL, UrlParse(uri))

(***************************************************************************)
(* HOTP.KeyURI and TOTP.KeyURI, and the specifications of the calls on a   *)
(* generator.                                                              *)
(***************************************************************************)
\* HOTP.KeyURI
HOTP_KeyURI(h, account, issuer) ==
    [Type |-> Str_hotp,
     Label |-> escape(issuer \o <<":">> \o account, "pathSegment"),
     Algorithm |-> AlgorithmString(h.Otp.Algorithm),
     Digits |-> h.Otp.Digits,
     Counter |-> h.Otp.Counter,
     Period |-> 0,
     Issuer |-> escape(issuer, "query"),
     Secret |-> h.Secret]

\* TOTP.KeyURI
TOTP_KeyURI(o, account, issuer) ==
    [Type |-> Str_totp,
     Label |-> escape(issuer \o <<":">> \o account, "pathSegment"),
     Algorithm |-> AlgorithmString(o.Otp.Algorithm),
     Digits |-> o.Otp.Digits,
     Counter |-> 0,
     Period |-> o.Otp.Period,
     Issuer |-> escape(issuer, "query"),
     Secret |-> o.Secret]

\* the accounts and issuers handed to KeyURI
AccountArgs == {<<>>, <<"a","l">>, <<"a"," ","l">>}
IssuerArgs == {<<>>, <<"E","x">>, <<"E","&","x">>, <<"E"," ","x">>}

\* key := hotp.KeyURI(account, issuer)
DoHOTPKeyURI ==
    /\ call = Idle /\ gen.kind = "hotp"
    /\ \E account \in AccountArgs, issuer \in IssuerArgs :
        /\ call' = [op |-> "KeyURI", pc |-> "done", account |-> account, issuer |-> issuer,
                    key |-> HOTP_KeyURI(gen, account, issuer)]
        /\ UNCHANGED <<gen, loop>>

\* key := totp.KeyURI(account, issuer)
DoTOTPKeyURI ==
    /\ call = Idle /\ gen.kind = "totp"
    /\ \E account \in AccountArgs, issuer \in IssuerArgs :
        /\ call' = [op |-> "KeyURI", pc |-> "done", account |-> account, issuer |-> issuer,
                    key |-> TOTP_KeyURI(gen, account, issuer)]
        /\ UNCHANGED <<gen, loop>>

NextHOTP ==
    \/ DoHOTPAt
    \/ HOTPVerifyEmpty
    \/ HOTPVerifyEnter
    \/ HOTPVerifyMatch
    \/ HOTPVerifyNext
    \/ HOTPVerifyExit
    \/ DoHOTPKeyURI
    \/ Return

SpecHOTP == InitHOTP /\ [][NextHOTP]_vars

NextTOTP ==
    \/ DoTOTPAt
    \/ DoTOTPExpiration
    \/ DoTOTPWithExpiration
    \/ TOTPVerifyEmpty
    \/ TOTPVerifyEnter
    \/ TOTPVerifyMatch
    \/ TOTPVerifyNext
    \/ TOTPVerifyExit
    \/ DoTOTPKeyURI
    \/ Return

SpecTOTP == InitTOTP /\ [][NextTOTP]_vars

(***************************************************************************)
(* SpecURI: calls of KeyURI.URI (with URL.String) and of FromURI.          *)
(***************************************************************************)
\* a query parameter that the URI does not carry
Absent == <<"<absent>">>

\* the parsed URIs, by the pieces they are put together from
URIParts ==
    [scheme : {Str_otpauth, <<"O","T","P","A","U","T","H">>, <<"o","t","p","a","u","t","h","1">>},
     authority : {Str_totp, Str_hotp, <<"T","O","T","P">>, <<"x","x","x","x">>, <<"u","@","t","o","t","p">>},
     path : {<<"/","E","x",":","a","l">>, <<"/","a","l">>, <<>>, <<"/">>,
             <<"/","E","x","%","3","A","a","l">>},
     secret : {Absent, <<>>, <<"A","B">>},
     issuer : {Absent, <<>>, <<"E","x">>},
     algorithm : {Absent, <<>>, <<"s","h","a","2","5","6">>, Str_SHA512, <<"m","d","5">>},
     digits : {Absent, <<>>, <<"8">>, <<"4">>, <<"x">>},
     period : {Absent, <<>>, <<"6","0">>, <<"9">>, <<"x">>},
     counter : {Absent, <<>>, <<"5">>, <<"-","5">>, <<"x">>, <<"9","9","9","9">>}]

\* the plain totp URI the parsed URIs depart from, in at most MaxDeviations pieces
PlainParts == [scheme |-> Str_otpauth, authority |-> Str_totp, path |-> <<"/","E","x",":","a","l">>,
               secret |-> <<"A","B">>, issuer |-> Absent, algorithm |-> Absent,
               digits |-> Absent, period |-> Absent, counter |-> Absent]
NoParts == [PlainParts EXCEPT !.scheme = Absent]

Deviations(parts) == Cardinality({f \in DOMAIN parts : parts[f] # PlainParts[f]})

\* key=value of a parameter the URI carries
Param(key, value) == IF value = Absent THEN <<>> ELSE <<key \o <<"=">> \o value>>

RECURSIVE Join(_, _)
\* strings.Join
Join(list, sep) ==
    IF list = <<>> THEN <<>>
    ELSE IF Len(list) = 1 THEN Head(list)
    ELSE Head(list) \o sep \o Join(Tail(list), sep)

\* the text of the URI made of the pieces
Assemble(parts) ==
    LET params == Param(Str_secret, parts.secret) \o Param(Str_issuer, parts.issuer)
                  \o Param(Str_algorithm, parts.algorithm) \o Param(Str_digits, parts.digits)
                  \o Param(Str_period, parts.period) \o Param(Str_counter, parts.counter)
    IN  parts.scheme \o <<":","/","/">> \o parts.authority \o parts.path
        \o (IF params = <<>> THEN <<>> ELSE <<"?">> \o Join(params, <<"&">>))

\* URIs of other shapes: no authority, no scheme, a fragment, a port, a repeated
\* parameter, parameters in another order, a broken escape
RawURIs ==
    { <<>>, <<"*">>, <<":","x">>,
      <<"o","t","p","a","u","t","h",":","t","o","t","p","/","a","l","?","s","e","c","r","e","t","=","A","B">>,
      <<"/","/","t","o","t","p","/","a","l","?","s","e","c","r","e","t","=","A","B">>,
      <<"o","t","p","a","u","t","h",":","/","/","t","o","t","p","/","a","l","?","s","e","c","r","e","t","=","A","B","#","f">>,
      <<"o","t","p","a","u","t","h",":","/","/","t","o","t","p","/","a","l","#","?","s","e","c","r","e","t","=","A","B">>,
      <<"o","t","p","a","u","t","h",":","/","/","t","o","t","p",":","8","0","/","a","l","?","s","e","c","r","e","t","=","A","B">>,
      <<"o","t","p","a","u","t","h",":","/","/","t","o","t","p","/","a","l","?","d","i","g","i","t","s","=","8","&","s","e","c","r","e","t","=","A","B","&","d","i","g","i","t","s","=","4">>,
      <<"o","t","p","a","u","t","h",":","/","/","t","o","t","p","/","a","%","z","z","?","s","e","c","r","e","t","=","A","B">>,
      <<"o","t","p","a","u","t","h",":","/","/","t","o","t","p","/","a","l","?","s","e","c","r","e","t","=","A","B","&","d","i","g","i","t","s","=","%","z","z">> }

\* the KeyURI values handed to KeyURI.URI
KeyArgs ==
    [Type : {Str_hotp, Str_totp},
     Label : {<<>>, <<"a","l">>, <<"E","x",":","a","l">>, <<"a"," ","?","b">>, <<"/","a","l">>},
     Issuer : {<<>>, <<"E","x">>, <<"E","&","x">>},
     Algorithm : {Str_SHA1, Str_SHA256, Str_SHA512},
     Digits : {6, 7, 8},
     Period : {0, 10, 30, 60},
     Counter : {MinInt, -1, 0, 1, MaxInt},
     Secret : {<<>>, <<"A","B">>}]

InitURI ==
    /\ gen = NoGen
    /\ call = Idle
    /\ loop = NoLoop

\* k.URI().String()
DoURI ==
    /\ call = Idle
    /\ \E k \in KeyArgs :
          \E url \in {KeyURI_URI(k)} :
              call' = [op |-> "URI", pc |-> "done", key |-> k, url |-> url, uri |-> URLString(url)]
    /\ UNCHANGED <<gen, loop>>

\* FromURI(uri) for a URI put together from pieces
DoFromURI ==
    /\ call = Idle
    /\ \E parts \in URIParts :
          /\ Deviations(parts) <= MaxDeviations
          /\ \E uri \in {Assemble(parts)} :
                 call' = [op |-> "FromURI", pc |-> "done", from |-> "parts", parts |-> parts,
                          key |-> ZeroKeyURI, uri |-> uri, res |-> FromURI(uri)]
    /\ UNCHANGED <<gen, loop>>

\* FromURI(uri) for a URI of another shape
DoFromRawURI ==
    /\ call = Idle
    /\ \E uri \in RawURIs :
          call' = [op |-> "FromURI", pc |-> "done", from |-> "raw", parts |-> NoParts,
                   key |-> ZeroKeyURI, uri |-> uri, res |-> FromURI(uri)]
    /\ UNCHANGED <<gen, loop>>

\* FromURI(k.URI().String()): the URI just built is parsed back
DoFromBuiltURI ==
    /\ call.op = "URI"
    /\ call' = [op |-> "FromURI", pc |-> "done", from |-> "built", parts |-> NoParts,
                key |-> call.key, uri |-> call.uri, res |-> FromURI(call.uri)]
    /\ UNCHANGED <<gen, loop>>

NextURI ==
    \/ DoURI
    \/ DoFromURI
    \/ DoFromRawURI
    \/ DoFromBuiltURI
    \/ Return

SpecURI == InitURI /\ [][NextURI]_vars

(***************************************************************************)
(* SpecExport: a generator built with any options exports its key URI,     *)
(* which is then parsed back.                                              *)
(***************************************************************************)
InitExport ==
    /\ gen \in {NewHOTP(secret, options) :
                    secret \in GoodSecrets, options \in SeqsUpTo(OptionArgs, MaxOptions)}
               \cup {NewTOTP(secret, options) :
                    secret \in GoodSecrets, options \in SeqsUpTo(OptionArgs, MaxOptions)}
    /\ call = Idle
    /\ loop = NoLoop

\* uri := key.URI().String() for the key the generator has just given
DoExportURI ==
    /\ call.op = "KeyURI"
    /\ \E url \in {KeyURI_URI(call.key)} :
          call' = [op |-> "URI", pc |-> "done", key |-> call.key, url |-> url, uri |-> URLString(url)]
    /\ UNCHANGED <<gen, loop>>

NextExport ==
    \/ DoHOTPKeyURI
    \/ DoTOTPKeyURI
    \/ DoExportURI
    \/ DoFromBuiltURI
    \/ Return

SpecExport == InitExport /\ [][NextExport]_vars


(***************************************************************************)
(* The claims.                                                             *)
(***************************************************************************)
Max(a, b) == IF a >= b THEN a ELSE b
Abs(a) == IF a >= 0 THEN a ELSE -a

\* C1: HOTP.Verify(candidate, counter) returns false for the empty candidate and
\* otherwise true exactly when At(i) = candidate for some int64 i with
\* counter - skew <= i <= counter + skew.
C1_HOTPVerifyWindow ==
    (gen.kind = "hotp" /\ call.op = "Verify" /\ call.pc = "done") =>
        call.ret = (/\ call.token # <<>>
                    /\ \E i \in (call.at - gen.Otp.Skew)..(call.at + gen.Otp.Skew) :
                          i \in Word /\ HOTP_At(gen, i) = call.token)

\* the tokens of the moving factors around the modelled times are pairwise different
WindowCodesDistinct(o) ==
    LET m == (MaxTime \div o.Otp.Period) + 6
    IN  Cardinality({HOTP_At(o, w) : w \in (-m)..m}) = 2 * m + 1

\* C2: TOTP.Verify(candidate, t) returns false for the empty candidate and otherwise
\* true exactly when candidate = At(t + i*p) for some i in -k..k; so, when windows
\* have different codes, a token generated in window w is accepted at t exactly
\* when |floor(t/p) - w| <= k.
C2_TOTPVerifyWindow ==
    (gen.kind = "totp" /\ call.op = "Verify" /\ call.pc = "done") =>
        LET p == gen.Otp.Period
            k == gen.Otp.Skew
        IN  /\ call.ret = (/\ call.token # <<>>
                           /\ \E i \in (-k)..k : call.token = TOTP_At(gen, call.at + i * p))
            /\ (call.src # NoSrc /\ WindowCodesDistinct(gen)) =>
                   (call.ret <=> Abs((call.at \div p) - (call.src \div p)) <= k)

IsDigits(s) == \A k \in DOMAIN s : s[k] \in {"0","1","2","3","4","5","6","7","8","9"}

\* C3: At returns a string of exactly Digits characters, all of them 0-9 (shorter
\* values are left-padded with 0), for every secret, counter, algorithm and digits,
\* and a second call with the same inputs returns the same string.
C3_TokenFormat ==
    (gen.kind = "hotp" /\ call.op = "At" /\ call.pc = "done") =>
        /\ Len(call.token) = gen.Otp.Digits
        /\ IsDigits(call.token)
        /\ HOTP_At(gen, call.at) = call.token

\* C3's case: a token whose value is shorter than Digits, so padding happened
C3_Witness ==
    /\ gen.kind = "hotp" /\ call.op = "At" /\ call.pc = "done"
    /\ gen.Otp.Digits = DigitsEight
    /\ call.token[1] = "0"

\* the KeyURI that FromURI(k.URI().String()) is to return: k with the field that
\* does not apply to its type forced to 0
WithSentinel(k) ==
    IF k.Type = Str_hotp THEN [k EXCEPT !.Period = 0] ELSE [k EXCEPT !.Counter = 0]

\* the KeyURI values the round trip is stated for
RoundTripKey(k) ==
    /\ k.Type \in {Str_hotp, Str_totp}
    /\ k.Digits \in {6, 8}
    /\ k.Algorithm \in {Str_SHA1, Str_SHA256, Str_SHA512}
    /\ k.Type = Str_totp => k.Period >= 10

\* text that reads the same before and after query unescaping
IsPlain(s) == \A i \in DOMAIN s : IsAlnum(s[i]) \/ s[i] \in {"-", "_", ".", "~"}

C5_FromURITotal ==
    (call.op = "FromURI") =>
        /\ call.res.panic = ""
        /\ call.res.nil => call.res.err = ErrURIFormat
        /\ ~call.res.nil =>
              /\ call.res.err = ""
              /\ call.res.key.Type \in {Str_hotp, Str_totp}
              /\ call.res.key.Secret # <<>>
              /\ call.res.key.Digits \in {6, 8}
              /\ call.res.key.Algorithm \in {Str_SHA1, Str_SHA256, Str_SHA512}

\* the value of a parameter of the parsed URI: empty when the URI does not carry it
ValueOf(param) == IF param = Absent THEN <<>> ELSE param

\* the text parses as an integer
IsInt(text) == ~ParseInt(text).err
IntOf(text) == ParseInt(text).val

\* C6 as stated, for URIs with a path: FromURI succeeds iff the scheme is exactly
\* otpauth, the authority is exactly hotp or totp, secret is present and not empty,
\* digits is absent or parses to 6 or 8, period is absent or parses to an integer
\* >= 10, counter is absent or parses, algorithm is absent or is SHA1/SHA256/SHA512
\* in any case; a failure is ErrURIFormat; absent parameters give digits 6, period
\* 30, counter 1, algorithm SHA1, and the algorithm comes back in upper case.
C6_Validation ==
    (call.op = "FromURI" /\ call.from = "parts" /\ call.parts.path # <<>>) =>
        LET p == call.parts
            k == call.res.key
            valid == /\ p.scheme = Str_otpauth
                     /\ p.authority \in {Str_hotp, Str_totp}
                     /\ p.secret # Absent /\ p.secret # <<>>
                     /\ p.digits = Absent \/ (IsInt(p.digits) /\ IntOf(p.digits) \in {6, 8})
                     /\ p.period = Absent \/ (IsInt(p.period) /\ IntOf(p.period) >= 10)
                     /\ p.counter = Absent \/ IsInt(p.counter)
                     /\ p.algorithm = Absent \/ ToUpper(p.algorithm) \in {Str_SHA1, Str_SHA256, Str_SHA512}
        IN  /\ ~call.res.nil <=> valid
            /\ call.res.nil => (call.res.err = ErrURIFormat /\ call.res.panic = "")
            /\ ~call.res.nil =>
                  /\ p.digits = Absent => k.Digits = 6
                  /\ p.period = Absent => k.Period = 30
                  /\ p.counter = Absent => k.Counter = 1
                  /\ p.algorithm = Absent => k.Algorithm = Str_SHA1
                  /\ p.algorithm # Absent => k.Algorithm = ToUpper(p.algorithm)

\* C6, amended, for URIs with a path: FromURI succeeds iff the scheme is otpauth in
\* any case, the host (the authority after its user information) is exactly hotp
\* or totp, and, an absent parameter counting as an empty one, secret is not
\* empty, digits is empty or parses to 6 or 8, period is empty or parses to an
\* integer >= 10, counter is empty or parses, algorithm is empty or is
\* SHA1/SHA256/SHA512 in any case; a failure is ErrURIFormat; on success an empty
\* digits gives 6 and an empty algorithm SHA1, the algorithm comes back in upper
\* case, a totp result has counter 0 and period 30 for an empty period, a hotp
\* result has period 0 and counter 1 for an empty counter.
C6_ValidationLenient ==
    (call.op = "FromURI" /\ call.from = "parts" /\ call.parts.path # <<>>) =>
        LET p == call.parts
            k == call.res.key
            host == Drop(p.authority, LastIndex("@", p.authority))
            secret == ValueOf(p.secret)
            digits == ValueOf(p.digits)
            period == ValueOf(p.period)
            counter == ValueOf(p.counter)
            algorithm == ValueOf(p.algorithm)
            valid == /\ ToLower(p.scheme) = Str_otpauth
                     /\ host \in {Str_hotp, Str_totp}
                     /\ secret # <<>>
                     /\ digits = <<>> \/ (IsInt(digits) /\ IntOf(digits) \in {6, 8})
                     /\ period = <<>> \/ (IsInt(period) /\ IntOf(period) >= 10)
                     /\ counter = <<>> \/ IsInt(counter)
                     /\ algorithm = <<>> \/ ToUpper(algorithm) \in {Str_SHA1, Str_SHA256, Str_SHA512}
        IN  /\ ~call.res.nil <=> valid
            /\ call.res.nil => (call.res.err = ErrURIFormat /\ call.res.panic = "")
            /\ ~call.res.nil =>
                  /\ call.res.err = ""
                  /\ k.Type = host
                  /\ k.Secret = secret
                  /\ k.Digits = (IF digits = <<>> THEN 6 ELSE IntOf(digits))
                  /\ k.Algorithm = (IF algorithm = <<>> THEN Str_SHA1 ELSE ToUpper(algorithm))
                  /\ host = Str_totp =>
                        (k.Counter = 0 /\ k.Period = (IF period = <<>> THEN 30 ELSE IntOf(period)))
                  /\ host = Str_hotp =>
                        (k.Period = 0 /\ k.Counter = (IF counter = <<>> THEN 1 ELSE IntOf(counter)))

\* C6's case: a hotp URI with an empty digits parameter and no counter is accepted
C6_Witness ==
    /\ call.op = "FromURI" /\ call.from = "parts" /\ call.parts.path # <<>>
    /\ call.parts.authority = Str_hotp /\ call.parts.digits = <<>>
    /\ call.parts.counter = Absent
    /\ ~call.res.nil /\ call.res.key.Digits = 6 /\ call.res.key.Counter = 1
    /\ call.res.key.Period = 0

\* C7: on a successful FromURI, with path the (unescaped) path after its slash and
\* issuer the issuer of the query: (1) no issuer and a colon in path: the result's
\* issuer is the part of path before the first colon and its label is path;
\* (2) an issuer and no colon in path: the label is issuer:path and the issuer is
\* issuer; (3) both or neither: the label is path and the issuer is issuer.
C7_Reconciliation ==
    (call.op = "FromURI" /\ call.from = "parts" /\ ~call.res.nil) =>
        LET path == Drop(unescape(call.parts.path, "path").text, 1)
            issuer == ValueOf(call.parts.issuer)
            colon == Contains(path, ":")
            k == call.res.key
        IN  /\ (issuer = <<>> /\ colon) => (k.Issuer = CutBefore(path, ":") /\ k.Label = path)
            /\ (issuer # <<>> /\ ~colon) => (k.Label = issuer \o <<":">> \o path /\ k.Issuer = issuer)
            /\ (issuer # <<>> <=> colon) => (k.Label = path /\ k.Issuer = issuer)

\* C7's case: an issuer in the query and none in the path, so the label is made up
C7_Witness ==
    /\ call.op = "FromURI" /\ call.from = "parts" /\ ~call.res.nil
    /\ call.parts.issuer = <<"E","x">> /\ call.parts.path = <<"/","a","l">>
    /\ call.res.key.Label = <<"E","x",":","a","l">>

\* C8: KeyURI.URI gives the URL with scheme otpauth, host Type, path Label and the
\* query secret=..&issuer=.. (both always), then algorithm=.. iff Algorithm is not
\* SHA1, digits=.. iff Digits is not 6, then for totp period=.. iff Period is not
\* 30 and no counter, for hotp counter=.. always and no period; its text is
\* otpauth://{type}/{label}?{query} for a label that does not start with a slash.
C8_URIParameters ==
    (call.op = "URI") =>
        LET k == call.key
            totp == k.Type = Str_totp
            params == <<Str_secret \o <<"=">> \o k.Secret, Str_issuer \o <<"=">> \o k.Issuer>>
                      \o (IF k.Algorithm # Str_SHA1 THEN <<Str_algorithm \o <<"=">> \o k.Algorithm>> ELSE <<>>)
                      \o (IF k.Digits # 6 THEN <<Str_digits \o <<"=">> \o Itoa(k.Digits)>> ELSE <<>>)
                      \o (IF totp /\ k.Period # 30 THEN <<Str_period \o <<"=">> \o Itoa(k.Period)>> ELSE <<>>)
                      \o (IF ~totp THEN <<Str_counter \o <<"=">> \o Itoa(k.Counter)>> ELSE <<>>)
            query == Join(params, <<"&">>)
        IN  /\ call.url.Scheme = Str_otpauth
            /\ call.url.Host = k.Type
            /\ call.url.Path = k.Label
            /\ call.url.RawQuery = query
            /\ (k.Label # <<>> /\ Head(k.Label) # "/") =>
                  call.uri = Str_otpauth \o <<":","/","/">> \o k.Type \o <<"/">>
                             \o escape(k.Label, "path") \o <<"?">> \o query
            /\ (k.Label # <<>> /\ IsPlain(Drop(k.Label, FirstIndex(":", k.Label)))
                               /\ IsPlain(CutBefore(k.Label, ":"))) =>
                  call.uri = Str_otpauth \o <<":","/","/">> \o k.Type \o <<"/">>
                             \o k.Label \o <<"?">> \o query

\* C8's case: a totp key with an empty issuer and every optional parameter off its
\* default, and the text of its URI
C8_Witness ==
    /\ call.op = "URI"
    /\ call.key.Type = Str_totp /\ call.key.Issuer = <<>> /\ call.key.Label = <<"E","x",":","a","l">>
    /\ call.key.Algorithm = Str_SHA256 /\ call.key.Digits = 8 /\ call.key.Period = 60
    /\ call.key.Secret = <<"A","B">>
    /\ call.uri = <<"o","t","p","a","u","t","h",":","/","/","t","o","t","p","/","E","x",":","a","l","?",
                    "s","e","c","r","e","t","=","A","B","&","i","s","s","u","e","r","=","&",
                    "a","l","g","o","r","i","t","h","m","=","S","H","A","2","5","6","&",
                    "d","i","g","i","t","s","=","8","&","p","e","r","i","o","d","=","6","0">>

\* the argument of the last option called name in options, or def when there is none
LastOptionArg(options, name, def) ==
    LET at == {k \in DOMAIN options : options[k].name = name}
    IN  IF at = {} THEN def ELSE options[CHOOSE k \in at : \A j \in at : j <= k].arg

\* C9: the constructors start from the defaults and apply the options in order; the
\* configuration has Skew >= 0 and Period >= 10, each field holds the (clamped) value
\* of the last option that set it or else its default, and no option value fails.
C9_Configuration ==
    (call.op \in {"NewHOTP", "NewTOTP"} /\ call.secret \in GoodSecrets) =>
        LET opts == call.options
        IN  /\ gen.panic = ""
            /\ gen.kind = (IF call.op = "NewHOTP" THEN "hotp" ELSE "totp")
            /\ gen.Otp.Skew >= 0
            /\ gen.Otp.Period >= 10
            /\ gen.Otp.Skew = Max(LastOptionArg(opts, "WithSkew", 0), 0)
            /\ gen.Otp.Period = Max(LastOptionArg(opts, "WithPeriod", 30), 10)
            /\ gen.Otp.Counter = LastOptionArg(opts, "WithCounter", 1)
            /\ gen.Otp.Digits = LastOptionArg(opts, "WithDigits", 6)
            /\ gen.Otp.Algorithm = LastOptionArg(opts, "WithAlgorithm", AlgorithmSHA1)

\* C9's case: a period set twice, the last time below the lower limit
C9_Witness ==
    /\ call.op = "NewTOTP" /\ call.secret \in GoodSecrets
    /\ call.options = <<[name |-> "WithPeriod", arg |-> 60], [name |-> "WithPeriod", arg |-> 9]>>
    /\ gen.Otp.Period = 10

\* C10: TOTP.Expiration(t) = period - (t mod period) for every timestamp t; it is
\* period when t is a multiple of period, and period - 1 one second later.
C10_Expiration ==
    (gen.kind = "totp" /\ call.op = "Expiration" /\ call.pc = "done") =>
        LET p == gen.Otp.Period
        IN  /\ call.expiration = p - (call.at % p)
            /\ (call.at % p = 0 => call.expiration = p)
            /\ ((call.at - 1) % p = 0 => call.expiration = p - 1)

\* C11: TOTP.At(t) is the token of the moving factor floor(t / period), for every
\* timestamp t, those before the epoch included: the times of one window
\* [n*period, (n+1)*period) all give the token the engine gives for n.
C11_FloorMovingFactor ==
    (gen.kind = "totp" /\ call.op = "At" /\ call.pc = "done") =>
        call.token = HOTP_At(gen, call.at \div gen.Otp.Period)

\* C12: a successful FromURI of a hotp URI returns Period 0 whatever valid period
\* the URI carries and the parsed (or default, 1) Counter; of a totp URI, Counter 0
\* whatever valid counter it carries and the parsed (or default, 30) Period.
C12_Sentinel ==
    (call.op = "FromURI" /\ call.from = "parts" /\ ~call.res.nil) =>
        LET k == call.res.key
            period == ValueOf(call.parts.period)
            counter == ValueOf(call.parts.counter)
        IN  /\ k.Type \in {Str_hotp, Str_totp}
            /\ k.Type = Str_hotp =>
                  (k.Period = 0 /\ k.Counter = (IF counter = <<>> THEN 1 ELSE IntOf(counter)))
            /\ k.Type = Str_totp =>
                  (k.Counter = 0 /\ k.Period = (IF period = <<>> THEN 30 ELSE IntOf(period)))

\* C12's case: a hotp URI that carries a valid period comes back with Period 0
C12_Witness ==
    /\ call.op = "FromURI" /\ call.from = "parts" /\ ~call.res.nil
    /\ call.parts.authority = Str_hotp /\ call.parts.period = <<"6","0">>
    /\ call.res.key.Period = 0 /\ call.res.key.Counter = 1

\* the text holds a character that is no base32 digit in either case
NotBase32(secret) ==
    \E k \in DOMAIN secret : ToUpperChar(secret[k]) \notin Range(Base32Alphabet)

\* C13: NewHOTP and NewTOTP fail with ErrSecretCannotBeEmpty exactly when the secret
\* is empty and with ErrSecretDecode exactly when it is not empty and is no base32
\* text, and then produce no generator; otherwise the generator holds the secret
\* as given and its decoded bytes.
C13_ConstructionErrors ==
    (call.op \in {"NewHOTP", "NewTOTP"}) =>
        /\ gen.panic = ErrSecretCannotBeEmpty <=> call.secret = <<>>
        /\ gen.panic = ErrSecretDecode <=> (call.secret # <<>> /\ NotBase32(call.secret))
        /\ gen.panic # "" => gen = [NoGen EXCEPT !.panic = gen.panic]
        /\ gen.panic = "" =>
              /\ gen.kind = (IF call.op = "NewHOTP" THEN "hotp" ELSE "totp")
              /\ gen.Secret = call.secret
              /\ gen.decodedSecret = Base32Decode(call.secret).bytes
              /\ call.secret = <<"J","B">> => gen.decodedSecret = <<72>>

\* C13's case: a lower-case secret is kept as given and decoded to its bytes
C13_Witness ==
    /\ call.op = "NewTOTP" /\ call.secret = <<"m","f","r","g","g">>
    /\ gen.panic = "" /\ gen.Secret = <<"m","f","r","g","g">>
    /\ gen.decodedSecret = <<97, 98, 99>>

\* C14: the configured Counter of an HOTP generator is informational: a generator
\* that differs only in its Counter gives the same At(c), takes the same steps in
\* Verify(candidate, c) and so returns the same result, and gives the same KeyURI
\* but for the Counter field, which is the configured one.
C14_CounterInformational ==
    (gen.kind = "hotp") =>
        \A c2 \in {MinInt, MaxInt} :
            LET g2 == [gen EXCEPT !.Otp.Counter = c2]
            IN  /\ (call.op = "At") => HOTP_At(g2, call.at) = call.token
                /\ (call.op = "Verify" /\ call.pc = "loop") =>
                      /\ loop.n = 0 => loop.i = HOTP_VerifyFirst(g2, call.at)
                      /\ (loop.i <= HOTP_VerifyLast(g2, call.at))
                            <=> (loop.i <= HOTP_VerifyLast(gen, call.at))
                      /\ (HOTP_At(g2, loop.i) = call.token) <=> (HOTP_At(gen, loop.i) = call.token)
                /\ (call.op = "KeyURI") =>
                      /\ call.key.Counter = gen.Otp.Counter
                      /\ HOTP_KeyURI(g2, call.account, call.issuer) = [call.key EXCEPT !.Counter = c2]

\* C14's case: a generator configured with counter 5 has accepted a token for
\* counter -1
C14_Witness ==
    /\ gen.kind = "hotp" /\ gen.Otp.Counter = 5
    /\ call.op = "Verify" /\ call.pc = "done" /\ call.at = -1 /\ call.ret

\* C15: Verify calls At at most 2*skew + 1 times, for every counter, every
\* skew >= 0 and every candidate (loop.n counts the calls of At).
C15_VerifyBounded ==
    (gen.kind = "hotp" /\ call.op = "Verify") => loop.n <= 2 * gen.Otp.Skew + 1

\* C16: for a digest H of 20, 32 or 64 bytes, with offset the low four bits of its
\* last byte, the bytes H[offset..offset+3] are inside H, bits is their big-endian
\* 32-bit value with the top bit cleared, 0 <= bits < 2^31, and truncate returns
\* bits mod 10^digits in decimal, left-padded with 0 to digits characters.
C16_Truncation ==
    (call.op = "truncate" /\ call.pc = "done") =>
        LET H == call.h
            offset == H[Len(H)] % 16
            cleared == IF H[offset + 1] >= 128 THEN H[offset + 1] - 128 ELSE H[offset + 1]
            bits == cleared * (2 ^ 24) + H[offset + 2] * (2 ^ 16)
                    + H[offset + 3] * (2 ^ 8) + H[offset + 4]
        IN  /\ Len(H) \in {20, 32, 64}
            /\ offset + 4 <= Len(H)
            /\ bits >= 0 /\ bits \div (2 ^ 30) <= 1
            /\ Len(call.token) = call.digits
            /\ IsDigits(call.token)
            /\ DecimalValue(call.token) = bits % (10 ^ call.digits)

\* C16's case: a 20-byte digest with offset 15 whose first selected byte has its
\* top bit set, and a token that needed padding
C16_Witness ==
    /\ call.op = "truncate" /\ call.pc = "done"
    /\ Len(call.h) = 20 /\ call.h[20] % 16 = 15 /\ call.h[16] >= 128
    /\ call.token[1] = "0"

C18_ExpirationAgreesWithWindow ==
    (gen.kind = "totp" /\ call.op = "WithExpiration" /\ call.pc = "done") =>
        LET p == gen.Otp.Period
            t == call.at
            e == call.expiration
        IN  /\ 1 <= e /\ e <= p
            /\ call.token = TOTP_At(gen, t)
            /\ \A d \in 0..(e - 1) : TOTP_At(gen, t + d) = call.token
            /\ (t + e) % p = 0
            /\ GoDiv(t + e, p) = GoDiv(t, p) + 1

\* the reserved characters of a URI (RFC 3986, gen-delims and sub-delims)
ReservedChars ==
    {":", "/", "?", "#", "[", "]", "@", "!", "$", "&", "'", "(", ")", "*", "+", ",", ";", "="}

\* C19: for a generator built with any options and an account and an issuer
\* without reserved characters, FromURI(gen.KeyURI(account, issuer).URI().String())
\* succeeds and returns gen.KeyURI(account, issuer): same type, label, issuer,
\* algorithm, digits, secret, and period (totp) or counter (hotp).  (The account
\* and the issuer are read back from the key: its label and issuer are their
\* escaped forms.)
C19_ExportedURIAccepted ==
    (call.op = "FromURI" /\ call.from = "built" /\ gen.kind \in {"hotp", "totp"}) =>
        LET account == CutAfter(unescape(call.key.Label, "path").text, ":")
            issuer == unescape(call.key.Issuer, "query").text
        IN  (Range(account) \cap ReservedChars = {} /\ Range(issuer) \cap ReservedChars = {}) =>
                /\ call.res.panic = ""
                /\ ~call.res.nil
                /\ call.res.key = call.key

===========================================================================
